---- MODULE Spec2Model ----
(***************************************************************************)
(* SmartPreprocessor (src/preprocessor.py) and the order in which          *)
(* src/app.py drives it.                                                   *)
(*                                                                         *)
(* The DataFrame is a record [cols, dtype, rows]: the ordered column       *)
(* names, the pandas dtype of each column, and the rows in order, each a   *)
(* function from column name to cell.  A cell is a tagged record           *)
(* [t, v]: a missing value (NaN/None/NaT), a Python str (a sequence of     *)
(* one-character strings), a number, a bool, a timestamp, or the falsy     *)
(* failure object the validators package returns.                          *)
(*                                                                         *)
(* The summary dict is a function from keys to values.  A key is a         *)
(* sequence of words: "Original Invalid Phones in Phone" is                *)
(* <<"Original","Invalid","Phones","in","Phone">>, and the substring       *)
(* tests of get_summary are tests for a contiguous run of words.           *)
(***************************************************************************)
EXTENDS Integers, Sequences, FiniteSets, TLC

VARIABLES df, phone_cols, email_cols, date_cols, website_cols, zip_cols,
          text_cols, numeric_cols, summary, err, pc

vars == <<df, phone_cols, email_cols, date_cols, website_cols, zip_cols,
          text_cols, numeric_cols, summary, err, pc>>

\* Rows of an input table with two columns.
MaxRows == 2
\* How many names the validators may append to summary["validations_added"].
MaxValidations == 2

-----------------------------------------------------------------------------
(* Cells                                                                   *)

Null == [t |-> "null", v |-> <<>>]
Str(s) == [t |-> "str", v |-> s]
Num(n) == [t |-> "num", v |-> n]
Bool(b) == [t |-> "bool", v |-> b]
Date(d) == [t |-> "date", v |-> d]
\* validators.ValidationFailure: falsy, compared by identity (i names the object).
Fail(i) == [t |-> "fail", v |-> i]

\* pandas isnull()
IsNull(c) == c.t = "null"

DigitChars == {"0", "1", "2", "3", "4", "5", "6", "7", "8", "9"}

DigitOf(n) ==
  CASE n = 0 -> "0" [] n = 1 -> "1" [] n = 2 -> "2" [] n = 3 -> "3"
    [] n = 4 -> "4" [] n = 5 -> "5" [] n = 6 -> "6" [] n = 7 -> "7"
    [] n = 8 -> "8" [] n = 9 -> "9"

ValueOf(ch) == CHOOSE n \in 0..9 : DigitOf(n) = ch

RECURSIVE NatStr(_)
NatStr(n) == IF n < 10 THEN <<DigitOf(n)>>
             ELSE NatStr(n \div 10) \o <<DigitOf(n % 10)>>

IntStr(n) == IF n < 0 THEN <<"-">> \o NatStr(-n) ELSE NatStr(n)

\* Python str(x) / Series.astype(str) of one cell of a column of dtype dt.
PyStr(c, dt) ==
  CASE c.t = "str" -> c.v
    [] c.t = "null" -> <<"n", "a", "n">>
    [] c.t = "num" -> IF dt = "float64" THEN IntStr(c.v) \o <<".", "0">>
                      ELSE IntStr(c.v)
    [] c.t = "bool" -> IF c.v THEN <<"T", "r", "u", "e">>
                       ELSE <<"F", "a", "l", "s", "e">>
    [] c.t = "date" -> c.v
    [] c.t = "fail" -> <<"V", "a", "l", "i", "d", "a", "t", "i", "o", "n",
                         "F", "a", "i", "l", "u", "r", "e">>

\* p in s, for sequences
Contains(s, p) ==
  \E i \in 1..(Len(s) - Len(p) + 1) : SubSeq(s, i, i + Len(p) - 1) = p

StartsWith(s, p) == Len(s) >= Len(p) /\ SubSeq(s, 1, Len(p)) = p

IndexOf(s, ch) ==
  IF \E i \in 1..Len(s) : s[i] = ch
  THEN CHOOSE i \in 1..Len(s) : s[i] = ch /\ \A j \in 1..(i - 1) : s[j] # ch
  ELSE 0

Whitespace == {" ", "\t", "\n"}

\* str.strip()
Strip(s) ==
  LET keep == {i \in 1..Len(s) : s[i] \notin Whitespace}
  IN IF keep = {} THEN <<>>
     ELSE LET lo == CHOOSE i \in keep : \A j \in keep : i <= j
              hi == CHOOSE i \in keep : \A j \in keep : i >= j
          IN SubSeq(s, lo, hi)

AllDigits(s) == \A i \in 1..Len(s) : s[i] \in DigitChars

RECURSIVE DigitsValue(_)
DigitsValue(s) == IF s = <<>> THEN 0
                  ELSE 10 * DigitsValue(SubSeq(s, 1, Len(s) - 1)) + ValueOf(s[Len(s)])

-----------------------------------------------------------------------------
(* The per-cell library calls, on the strings the model draws its inputs   *)
(* from.                                                                   *)

LowerLetters == <<"a", "b", "c", "d", "e", "f", "g", "h", "i", "j", "k", "l", "m",
                  "n", "o", "p", "q", "r", "s", "t", "u", "v", "w", "x", "y", "z">>
UpperLetters == <<"A", "B", "C", "D", "E", "F", "G", "H", "I", "J", "K", "L", "M",
                  "N", "O", "P", "Q", "R", "S", "T", "U", "V", "W", "X", "Y", "Z">>

IsLower(ch) == \E i \in 1..26 : LowerLetters[i] = ch
IsUpper(ch) == \E i \in 1..26 : UpperLetters[i] = ch
IsLetter(ch) == IsLower(ch) \/ IsUpper(ch)
ToUpper(ch) == IF IsLower(ch)
               THEN UpperLetters[CHOOSE i \in 1..26 : LowerLetters[i] = ch] ELSE ch
ToLower(ch) == IF IsUpper(ch)
               THEN LowerLetters[CHOOSE i \in 1..26 : UpperLetters[i] = ch] ELSE ch

\* str.title(): a letter that follows a non-letter is upper-cased, the rest lower-cased.
Title(s) ==
  [i \in 1..Len(s) |->
     IF i = 1 \/ ~IsLetter(s[i - 1]) THEN ToUpper(s[i]) ELSE ToLower(s[i])]

\* x.strip().title() if isinstance(x, str) else x
CleanText(c) == IF c.t = "str" THEN Str(Title(Strip(c.v))) ELSE c

PhonePunctuation == {" ", "-", "(", ")", ".", "/"}

\* phonenumbers.is_possible_number and is_valid_number, for the one region whose
\* metadata the model carries: country code 1, national number [2-9]XX[2-9]XXXXXX.
IsValidNumber(digits) ==
  /\ Len(digits) = 11
  /\ digits[1] = "1"
  /\ digits[2] \notin {"0", "1"}
  /\ digits[5] \notin {"0", "1"}

\* phonenumbers.parse(s, None): the number starts at the first "+" or digit; with
\* no default region it must start with "+"; punctuation is dropped.  The result is
\* the digit string after the "+", or <<>> when parse raises NumberParseException.
ParseNumber(s) ==
  LET starts == {i \in 1..Len(s) : s[i] = "+" \/ s[i] \in DigitChars}
  IN IF starts = {} THEN <<>>
     ELSE LET lo == CHOOSE i \in starts : \A j \in starts : i <= j
              body == SubSeq(s, lo, Len(s))
              rest == Tail(body)
          IN IF body[1] # "+" THEN <<>>
             ELSE IF \E i \in 1..Len(rest) : rest[i] \notin DigitChars \cup PhonePunctuation
             THEN <<>>
             ELSE SelectSeq(rest, LAMBDA ch : ch \in DigitChars)

\* phonenumbers.format_number(parsed, PhoneNumberFormat.NATIONAL): what a wrong
\* format constant would produce.
FormatNational(digits) ==
  <<"(">> \o SubSeq(digits, 2, 4) \o <<")", " ">> \o SubSeq(digits, 5, 7)
          \o <<"-">> \o SubSeq(digits, 8, 11)

\* phonenumbers.format_number(parsed, PhoneNumberFormat.E164)
FormatE164(digits) == <<"+">> \o digits

\* clean_number(val) of clean_phones
clean_number(c, dt) ==
  LET digits == ParseNumber(PyStr(c, dt))
  IN IF digits # <<>> /\ IsValidNumber(digits) THEN Str(FormatE164(digits)) ELSE Null

LastIndexOf(s, ch) ==
  IF \E i \in 1..Len(s) : s[i] = ch
  THEN CHOOSE i \in 1..Len(s) : s[i] = ch /\ \A j \in (i + 1)..Len(s) : s[j] # ch
  ELSE 0

\* A host name: dot-separated labels of letters, digits and inner hyphens, the last
\* one (the top-level domain) at least two letters.
IsDomain(d) ==
  LET lastDot == LastIndexOf(d, ".")
      tld == SubSeq(d, lastDot + 1, Len(d))
  IN /\ lastDot > 1
     /\ Len(tld) >= 2
     /\ \A i \in 1..Len(tld) : IsLetter(tld[i])
     /\ \A i \in 1..Len(d) : IsLetter(d[i]) \/ d[i] \in DigitChars \cup {".", "-"}
     /\ \A i \in 1..Len(d) :
          d[i] \in {".", "-"} =>
            /\ i > 1 /\ i < Len(d)
            /\ d[i - 1] \notin {"."} /\ d[i + 1] \notin {"."}
     /\ d[1] # "-"

UserChars == {".", "_", "-", "+"}

\* validators.email(s) is True
EmailOK(s) ==
  LET at == LastIndexOf(s, "@")
      user == SubSeq(s, 1, at - 1)
      domain == SubSeq(s, at + 1, Len(s))
  IN /\ at > 1
     /\ \A i \in 1..Len(user) :
          IsLetter(user[i]) \/ user[i] \in DigitChars \cup UserChars
     /\ user[1] # "." /\ user[Len(user)] # "."
     /\ IsDomain(domain)

Schemes == {<<"h", "t", "t", "p">>, <<"h", "t", "t", "p", "s">>, <<"f", "t", "p">>}

\* validators.url(s) is True: scheme "://" host, then nothing or a path.
UrlOK(s) ==
  \E sch \in Schemes :
    LET pre == sch \o <<":", "/", "/">>
        after == SubSeq(s, Len(pre) + 1, Len(s))
        slash == IndexOf(after, "/")
        host == IF slash = 0 THEN after ELSE SubSeq(after, 1, slash - 1)
    IN /\ StartsWith(s, pre)
       /\ IsDomain(host)
       /\ \A i \in 1..Len(after) : after[i] \notin Whitespace

\* re.match(r'^\d{5}$', s): five digits; "$" also matches before a final newline.
ZipOK(s) ==
  \/ Len(s) = 5 /\ AllDigits(s)
  \/ Len(s) = 6 /\ AllDigits(SubSeq(s, 1, 5)) /\ s[6] = "\n"

DaysIn(y, m) ==
  IF m = 2 THEN (IF (y % 4 = 0 /\ y % 100 # 0) \/ y % 400 = 0 THEN 29 ELSE 28)
  ELSE IF m \in {4, 6, 9, 11} THEN 30 ELSE 31

\* The ISO dates pd.to_datetime accepts: YYYY-MM-DD naming a day of the calendar.
IsIsoDate(s) ==
  /\ Len(s) = 10
  /\ s[5] = "-" /\ s[8] = "-"
  /\ AllDigits(SubSeq(s, 1, 4)) /\ AllDigits(SubSeq(s, 6, 7)) /\ AllDigits(SubSeq(s, 9, 10))
  /\ LET y == DigitsValue(SubSeq(s, 1, 4))
         m == DigitsValue(SubSeq(s, 6, 7))
         d == DigitsValue(SubSeq(s, 9, 10))
     IN m \in 1..12 /\ d \in 1..DaysIn(y, m)

\* pd.to_datetime(x, errors='coerce') of one cell
ToDatetime(c) ==
  CASE c.t = "date" -> c
    [] c.t = "str" -> IF IsIsoDate(Strip(c.v)) THEN Date(Strip(c.v)) ELSE Null
    [] OTHER -> Null

\* pd.to_numeric(x, errors='coerce') of one cell
ToNumeric(c) ==
  CASE c.t = "num" -> c
    [] c.t = "bool" -> Num(IF c.v THEN 1 ELSE 0)
    [] c.t = "str" ->
         LET s == Strip(c.v)
         IN IF s # <<>> /\ AllDigits(s) THEN Num(DigitsValue(s))
            ELSE IF Len(s) > 1 /\ s[1] = "-" /\ AllDigits(Tail(s))
            THEN Num(0 - DigitsValue(Tail(s)))
            ELSE Null
    [] OTHER -> Null

-----------------------------------------------------------------------------
(* The DataFrame                                                           *)

Range(q) == {q[i] : i \in 1..Len(q)}

ColSet(d) == Range(d.cols)

\* df.shape: (rows, columns)
Shape(d) == <<Len(d.rows), Len(d.cols)>>

\* df[c]
Column(d, c) == [i \in 1..Len(d.rows) |-> d.rows[i][c]]

\* The dtype pandas infers for the values of a column (old: the dtype an empty
\* column keeps).
InferDtype(cells, old) ==
  IF Len(cells) = 0 THEN old
  ELSE IF \A i \in 1..Len(cells) : cells[i].t = "num" THEN "int64"
  ELSE IF \A i \in 1..Len(cells) : cells[i].t \in {"num", "null"} THEN "float64"
  ELSE IF \A i \in 1..Len(cells) : cells[i].t = "bool" THEN "bool"
  ELSE "object"

IsNumberDtype(dt) == dt \in {"int64", "float64"}

\* df[c] = cells[c], of dtype dtypes[c], for each column c that cells names (all
\* of them columns of d)
SetColumns(d, cells, dtypes) ==
  [cols |-> d.cols,
   rows |-> [i \in 1..Len(d.rows) |->
               [c \in ColSet(d) |-> IF c \in DOMAIN cells THEN cells[c][i] ELSE d.rows[i][c]]],
   dtype |-> [c \in ColSet(d) |-> IF c \in DOMAIN cells THEN dtypes[c] ELSE d.dtype[c]]]

\* The dtypes pandas infers for new values of columns of d
Inferred(d, cells) == [c \in DOMAIN cells |-> InferDtype(cells[c], d.dtype[c])]

\* df[c] = cells: replaces the column, or appends it as the last one
SetColumn(d, c, cells, dt) ==
  LET cols == IF c \in ColSet(d) THEN d.cols ELSE Append(d.cols, c)
  IN [cols |-> cols,
      rows |-> [i \in 1..Len(d.rows) |->
                  [x \in Range(cols) |-> IF x = c THEN cells[i] ELSE d.rows[i][x]]],
      dtype |-> [x \in Range(cols) |-> IF x = c THEN dt ELSE d.dtype[x]]]

\* df.drop(columns=drop)
DropColumns(d, drop) ==
  LET cols == SelectSeq(d.cols, LAMBDA c : c \notin drop)
  IN [cols |-> cols,
      rows |-> [i \in 1..Len(d.rows) |-> [c \in Range(cols) |-> d.rows[i][c]]],
      dtype |-> [c \in Range(cols) |-> d.dtype[c]]]

\* df.select_dtypes(include='number').columns.tolist()
NumberColumns(d) == SelectSeq(d.cols, LAMBDA c : IsNumberDtype(d.dtype[c]))

NullCount(d, c) == Cardinality({i \in 1..Len(d.rows) : IsNull(d.rows[i][c])})

\* A "for col in role_cols" loop reads df[col] first: it runs for the columns
\* before the first one the table no longer has, and raises KeyError at that one.
FirstMissing(role, d) ==
  IF \E i \in 1..Len(role) : role[i] \notin ColSet(d)
  THEN CHOOSE i \in 1..Len(role) :
         role[i] \notin ColSet(d) /\ \A j \in 1..(i - 1) : role[j] \in ColSet(d)
  ELSE Len(role) + 1

Reached(role, d) == Range(SubSeq(role, 1, FirstMissing(role, d) - 1))

LoopError(role, d) == IF FirstMissing(role, d) <= Len(role) THEN "KeyError" ELSE "none"

-----------------------------------------------------------------------------
(* The summary dict                                                        *)

Put(s, k, v) == [x \in DOMAIN s \cup {k} |-> IF x = k THEN v ELSE s[x]]

\* dict.get(k, default)
Get(s, k, default) == IF k \in DOMAIN s THEN s[k] ELSE default

\* {k: v for k, v in s.items() if pattern in k}
ItemsWith(s, pattern) ==
  [k \in {x \in DOMAIN s : Contains(x, pattern)} |-> s[k]]

\* s with the items of t written over it
Update(s, t) == [k \in DOMAIN s \cup DOMAIN t |-> IF k \in DOMAIN t THEN t[k] ELSE s[k]]

OriginalKey(kind, col) == <<"Original", "Invalid", kind, "in", col>>
RemainingKey(kind, col) == <<"Remaining", "Invalid", kind, "in", col>>
NegativeKey(col) == <<"Negative", "Values", "in", col>>

\* f"Valid {col}"
ValidationCol(col) == "Valid " \o col

-----------------------------------------------------------------------------
(* Construction                                                            *)

\* col.lower(), for the column names the input tables use
Lower(col) ==
  CASE col = "Phone" -> <<"p", "h", "o", "n", "e">>
    [] col = "id" -> <<"i", "d">>
    [] col = "zip" -> <<"z", "i", "p">>
    [] col = "email" -> <<"e", "m", "a", "i", "l">>
    [] col = "Event Date" -> <<"e", "v", "e", "n", "t", " ", "d", "a", "t", "e">>
    [] col = "name" -> <<"n", "a", "m", "e">>
    [] col = "website" -> <<"w", "e", "b", "s", "i", "t", "e">>
    [] col = "price" -> <<"p", "r", "i", "c", "e">>
    [] col = "amount" -> <<"a", "m", "o", "u", "n", "t">>

\* [col for col in self.df.columns if keyword in col.lower()]
ColumnsNamed(d, keyword) == SelectSeq(d.cols, LAMBDA c : Contains(Lower(c), keyword))

TextKeywords == {<<"n", "a", "m", "e">>, <<"c", "i", "t", "y">>, <<"c", "o", "u", "n", "t", "r", "y">>, <<"c", "o", "m", "p", "a", "n", "y">>}

_detect_text_fields(d) ==
  SelectSeq(d.cols, LAMBDA c : d.dtype[c] = "object"
                               /\ \E x \in TextKeywords : Contains(Lower(c), x))

InitialSummary(d) ==
  (<<"original_shape">> :> Shape(d))
    @@ (<<"columns_removed">> :> <<>>)
    @@ (<<"duplicate_rows_dropped">> :> 0)
    @@ (<<"validations_added">> :> <<>>)
    @@ (<<"outliers_flagged">> :> <<>>)

\* The tables handed to the constructor: the column names of one of these lists,
\* each cell drawn from the values listed for its column.
InputColumns ==
  {<<"Phone", "id">>, <<"zip", "email">>, <<"Event Date", "name">>,
   <<"website", "price">>, <<"amount">>}

CellValues(col) ==
  CASE col = "Phone" -> {Null, Str(<<"+", "1", " ", "2", "0", "2", "-", "5", "5", "5", "-", "0", "1", "7", "3">>), Str(<<"2", "0", "2", "-", "5", "5", "5", "-", "0", "1", "7", "3">>)}
    [] col = "id" -> {Num(1), Num(2)}
    [] col = "zip" -> {Null, Str(<<"1", "2", "3", "4", "5">>), Str(<<"1", "2", "3", "4">>)}
    [] col = "email" -> {Str(<<"a", "@", "b", ".", "c", "o", "m">>), Str(<<"a", "@", "b">>)}
    [] col = "Event Date" -> {Null, Str(<<"2", "0", "2", "0", "-", "0", "2", "-", "2", "9">>), Str(<<"2", "0", "2", "1", "-", "0", "2", "-", "2", "9">>)}
    [] col = "name" -> {Str(<<" ", "a", "n", "n", " ", "l", "e", "e">>), Str(<<"A", "N", "N", " ", "L", "E", "E">>)}
    [] col = "website" -> {Str(<<"h", "t", "t", "p", ":", "/", "/", "a", ".", "i", "o">>), Str(<<"a", ".", "i", "o">>)}
    [] col = "price" -> {Str(<<"5", "*">>), Str(<<"-", "3">>), Str(<<"7">>)}
    [] col = "amount" -> {Null, Num(0 - 1), Num(0), Num(9)}

\* A one-column table may be longer: the quartiles of detect_outliers_iqr flag
\* nothing in fewer than four rows.
RowLimit(cols) == IF Len(cols) = 1 THEN MaxRows + 2 ELSE MaxRows

InputRows(cols) ==
  {r \in [Range(cols) -> UNION {CellValues(c) : c \in Range(cols)}] :
     \A c \in Range(cols) : r[c] \in CellValues(c)}

InputTables ==
  UNION {
    UNION {
      {[cols |-> cols,
        rows |-> rows,
        dtype |-> [c \in Range(cols) |->
                     InferDtype([i \in 1..n |-> rows[i][c]], "object")]] :
         rows \in [1..n -> InputRows(cols)]} :
      n \in 0..RowLimit(cols)} :
    cols \in InputColumns}

\* SmartPreprocessor(df); pc counts the calls src/app.py has made on it.
Init ==
  /\ df \in InputTables
  /\ phone_cols = ColumnsNamed(df, <<"p", "h", "o", "n", "e">>)
  /\ email_cols = ColumnsNamed(df, <<"e", "m", "a", "i", "l">>)
  /\ date_cols = ColumnsNamed(df, <<"d", "a", "t", "e">>)
  /\ website_cols = ColumnsNamed(df, <<"w", "e", "b", "s", "i", "t", "e">>)
  /\ zip_cols = ColumnsNamed(df, <<"z", "i", "p">>)
  /\ text_cols = _detect_text_fields(df)
  /\ numeric_cols = NumberColumns(df)
  /\ summary = InitialSummary(df)
  /\ err = "none"
  /\ pc = 0

-----------------------------------------------------------------------------
(* The cleaning stages.  Each operator is one method call on the object;   *)
(* err is what the call raised ("none" when it returned).                  *)

roles == <<phone_cols, email_cols, date_cols, website_cols, zip_cols, text_cols>>

\* The thresholds callers pass to drop_empty_columns, as <<numerator, denominator>>.
DefaultThreshold == <<9, 10>>
Thresholds == {DefaultThreshold, <<1, 2>>}

\* null_frac >= threshold: the comparison off by its boundary
ExceedsAtLeast(nulls, n, threshold) ==
  n > 0 /\ nulls * threshold[2] >= threshold[1] * n

\* null_frac > threshold, for nulls missing cells among n; the mean of no rows is
\* NaN, and NaN > threshold is False.
ExceedsThreshold(nulls, n, threshold) ==
  n > 0 /\ nulls * threshold[2] > threshold[1] * n

drop_empty_columns(threshold) ==
  LET cols_to_drop ==
        SelectSeq(df.cols,
                  LAMBDA c : ExceedsThreshold(NullCount(df, c), Len(df.rows), threshold))
  IN /\ df' = DropColumns(df, Range(cols_to_drop))
     /\ summary' = Put(summary, <<"columns_removed">>, cols_to_drop)
     /\ err' = "none"
     /\ UNCHANGED <<roles, numeric_cols>>

convert_dates ==
  /\ df' = SetColumns(df, [c \in Reached(date_cols, df) |->
                             [i \in 1..Len(df.rows) |-> ToDatetime(df.rows[i][c])]],
                      [c \in Reached(date_cols, df) |-> "datetime64[ns]"])
  /\ err' = LoopError(date_cols, df)
  /\ UNCHANGED <<roles, numeric_cols, summary>>

\* self.df[col].dtype == 'object' and self.df[col].str.contains(r'\*', na=False).any()
HasStrayCharacters(d, c) ==
  /\ d.dtype[c] = "object"
  /\ \E i \in 1..Len(d.rows) : d.rows[i][c].t = "str" /\ Contains(d.rows[i][c].v, <<"*">>)

clean_numeric_fields ==
  /\ LET cells == [c \in {x \in ColSet(df) : HasStrayCharacters(df, x)} |->
                     [i \in 1..Len(df.rows) |-> ToNumeric(df.rows[i][c])]]
     IN df' = SetColumns(df, cells, Inferred(df, cells))
  /\ numeric_cols' = NumberColumns(df')
  /\ err' = "none"
  /\ UNCHANGED <<roles, summary>>

\* summary["validations_added"].append(f"Valid {col}") for each col of cs in turn
AppendValidations(s, cs) ==
  Put(s, <<"validations_added">>,
      s[<<"validations_added">>] \o [i \in 1..Len(cs) |-> ValidationCol(cs[i])])

\* The two counts one validator records for each column that original names
InvalidCounts(kind, original, remaining) ==
  [k \in {OriginalKey(kind, c) : c \in DOMAIN original}
          \cup {RemainingKey(kind, c) : c \in DOMAIN original} |->
     IF k[1] = "Original" THEN original[k[5]] ELSE remaining[k[5]]]

\* self.df[col] = self.df[col].apply(clean_number) for the columns the loop reaches
CleanedPhones(d, role) ==
  LET cells == [c \in Reached(role, d) |->
                  [i \in 1..Len(d.rows) |-> clean_number(d.rows[i][c], d.dtype[c])]]
  IN SetColumns(d, cells, Inferred(d, cells))

clean_phones ==
  LET done == SubSeq(phone_cols, 1, FirstMissing(phone_cols, df) - 1)
      after == CleanedPhones(df, phone_cols)
  IN /\ Len(summary[<<"validations_added">>]) + Len(phone_cols) <= MaxValidations
     /\ df' = after
     /\ summary' = AppendValidations(
                     Update(summary,
                            InvalidCounts("Phones",
                                          [c \in Range(done) |-> NullCount(df, c)],
                                          [c \in Range(done) |-> NullCount(after, c)])),
                     done)
     /\ err' = LoopError(phone_cols, df)
     /\ UNCHANGED <<roles, numeric_cols>>

RECURSIVE AddColumns(_, _, _, _)
\* df[f"Valid {col}"] = cells[col] for each col of cs in turn
AddColumns(d, cs, cells, dtypes) ==
  IF cs = <<>> THEN d
  ELSE AddColumns(SetColumn(d, ValidationCol(Head(cs)), cells[Head(cs)], dtypes[Head(cs)]),
                  Tail(cs), cells, dtypes)

\* One validator over its role columns.  valid[c][i] tells whether the cell of
\* column c in row i passes the check, suspect[c][i] whether it counts as
\* original-invalid.  With objects, a failed check leaves the validators package's
\* falsy failure object in the flag column, and "~" over the column either raises
\* TypeError (raises) or counts the falsy cells; without, the flags are plain
\* booleans.
Validate(d, s, role, kind, valid, suspect, objects, raises) ==
  LET n == Len(d.rows)
      flags == [c \in DOMAIN valid |->
                  [i \in 1..n |->
                     IF valid[c][i] THEN Bool(TRUE)
                     ELSE IF objects THEN Fail(i) ELSE Bool(FALSE)]]
      dtypes == [c \in DOMAIN flags |-> InferDtype(flags[c], "object")]
      stop == IF \E i \in 1..Len(role) :
                   \/ role[i] \notin ColSet(d)
                   \/ raises /\ dtypes[role[i]] = "object" /\ n > 0
              THEN CHOOSE i \in 1..Len(role) :
                     /\ \/ role[i] \notin ColSet(d)
                        \/ raises /\ dtypes[role[i]] = "object" /\ n > 0
                     /\ \A j \in 1..(i - 1) :
                          /\ role[j] \in ColSet(d)
                          /\ ~(raises /\ dtypes[role[j]] = "object" /\ n > 0)
              ELSE Len(role) + 1
      done == SubSeq(role, 1, stop - 1)
      assigned == IF stop <= Len(role) /\ role[stop] \in ColSet(d)
                  THEN SubSeq(role, 1, stop) ELSE done
  IN [df |-> AddColumns(d, assigned, flags, dtypes),
      summary |->
        AppendValidations(
          Update(s, InvalidCounts(kind,
                   [c \in Range(done) |-> Cardinality({i \in 1..n : suspect[c][i]})],
                   [c \in Range(done) |->
                      Cardinality({i \in 1..n : flags[c][i] # Bool(TRUE)})])),
          done),
      err |-> IF stop > Len(role) THEN "none"
              ELSE IF role[stop] \in ColSet(d) THEN "TypeError" ELSE "KeyError"]

\* The cells of the role columns the table still has, as str(x)
RoleStrings(d, role) ==
  [c \in Range(role) \cap ColSet(d) |->
     [i \in 1..Len(d.rows) |-> PyStr(d.rows[i][c], d.dtype[c])]]

validate_emails ==
  \E raises \in BOOLEAN :
    LET text == RoleStrings(df, email_cols)
        r == Validate(df, summary, email_cols, "Emails",
                      [c \in DOMAIN text |->
                         [i \in 1..Len(df.rows) |-> EmailOK(Strip(text[c][i]))]],
                      [c \in DOMAIN text |->
                         [i \in 1..Len(df.rows) |-> ~Contains(text[c][i], <<"@">>)]],
                      TRUE, raises)
    IN /\ Len(summary[<<"validations_added">>]) + Len(email_cols) <= MaxValidations
       /\ df' = r.df /\ summary' = r.summary /\ err' = r.err
       /\ UNCHANGED <<roles, numeric_cols>>

validate_websites ==
  \E raises \in BOOLEAN :
    LET text == RoleStrings(df, website_cols)
        r == Validate(df, summary, website_cols, "URLs",
                      [c \in DOMAIN text |->
                         [i \in 1..Len(df.rows) |-> UrlOK(Strip(text[c][i]))]],
                      [c \in DOMAIN text |->
                         [i \in 1..Len(df.rows) |-> ~StartsWith(text[c][i], <<"h", "t", "t", "p">>)]],
                      TRUE, raises)
    IN /\ Len(summary[<<"validations_added">>]) + Len(website_cols) <= MaxValidations
       /\ df' = r.df /\ summary' = r.summary /\ err' = r.err
       /\ UNCHANGED <<roles, numeric_cols>>

validate_zip_codes ==
  LET text == RoleStrings(df, zip_cols)
      matches == [c \in DOMAIN text |-> [i \in 1..Len(df.rows) |-> ZipOK(text[c][i])]]
      r == Validate(df, summary, zip_cols, "ZIPs", matches,
                    [c \in DOMAIN text |-> [i \in 1..Len(df.rows) |-> ~matches[c][i]]],
                    FALSE, FALSE)
  IN /\ Len(summary[<<"validations_added">>]) + Len(zip_cols) <= MaxValidations
     /\ df' = r.df /\ summary' = r.summary /\ err' = r.err
     /\ UNCHANGED <<roles, numeric_cols>>

check_negative_values ==
  LET negative(c) == Cardinality({i \in 1..Len(df.rows) :
                                    df.rows[i][c].t = "num" /\ df.rows[i][c].v < 0})
      found == {c \in Reached(numeric_cols, df) : negative(c) > 0}
  IN /\ summary' = Update(summary, [k \in {NegativeKey(c) : c \in found} |-> negative(k[4])])
     /\ err' = LoopError(numeric_cols, df)
     /\ UNCHANGED <<df, roles, numeric_cols>>

RECURSIVE Sorted(_)
\* The numbers of a bag of <<row, value>> pairs in ascending order
Sorted(pairs) ==
  IF pairs = {} THEN <<>>
  ELSE LET least == CHOOSE p \in pairs : \A q \in pairs :
                      p[2] < q[2] \/ (p[2] = q[2] /\ p[1] <= q[1])
       IN <<least[2]>> \o Sorted(pairs \ {least})

\* Four times Series.quantile(quarters / 4), by linear interpolation between the
\* two nearest of the sorted values.
Quantile4(values, quarters) ==
  LET h == (Len(values) - 1) * quarters
      lo == (h \div 4) + 1
      rest == h % 4
  IN IF rest = 0 THEN 4 * values[lo]
     ELSE 4 * values[lo] + rest * (values[lo + 1] - values[lo])

\* len(df[(df[col] < Q1 - 1.5 * IQR) | (df[col] > Q3 + 1.5 * IQR)]); the quantile
\* of a column with no number is NaN and no comparison with it is True.
OutlierCount(d, c) ==
  LET present == {i \in 1..Len(d.rows) : d.rows[i][c].t = "num"}
      values == Sorted({<<i, d.rows[i][c].v>> : i \in present})
      Q1 == Quantile4(values, 1)
      Q3 == Quantile4(values, 3)
      IQR == Q3 - Q1
  IN IF present = {} THEN 0
     ELSE Cardinality({i \in present :
                         \/ 8 * d.rows[i][c].v < 2 * Q1 - 3 * IQR
                         \/ 8 * d.rows[i][c].v > 2 * Q3 + 3 * IQR})

detect_outliers_iqr ==
  LET found == {c \in Reached(numeric_cols, df) : OutlierCount(df, c) > 0}
  IN /\ summary' = Put(summary, <<"outliers_flagged">>,
                       Update(summary[<<"outliers_flagged">>],
                              [c \in found |-> OutlierCount(df, c)]))
     /\ err' = LoopError(numeric_cols, df)
     /\ UNCHANGED <<df, roles, numeric_cols>>

clean_text_columns ==
  /\ LET cells == [c \in Reached(text_cols, df) |->
                     [i \in 1..Len(df.rows) |-> CleanText(df.rows[i][c])]]
     IN df' = SetColumns(df, cells, Inferred(df, cells))
  /\ err' = LoopError(text_cols, df)
  /\ UNCHANGED <<roles, numeric_cols, summary>>

RECURSIVE Pick(_, _)
\* The rows at the positions of keep, in order
Pick(rows, keep) ==
  IF keep = {} THEN <<>>
  ELSE LET last == CHOOSE i \in keep : \A j \in keep : j <= i
       IN Append(Pick(rows, keep \ {last}), rows[last])

\* What a deduplication that kept the last occurrence as well would return.
KeepFirstAndLast(rows, on) ==
  rows \o Pick(rows, {i \in 1..Len(rows) :
                        \E j \in 1..(i - 1) : \A c \in on : rows[j][c] = rows[i][c]})

\* DataFrame.drop_duplicates(subset=on): a row goes when an earlier row equals it
\* on every column of on (missing values equal one another).
KeepFirst(rows, on) ==
  Pick(rows, {i \in 1..Len(rows) :
                ~\E j \in 1..(i - 1) : \A c \in on : rows[j][c] = rows[i][c]})

\* "" stands for subset=None.
Subsets == {"", "id", "zip", "missing"}

\* The columns a deduplication keyed on the identifier columns compares
IdentifierOrAll(d, subset) ==
  IF \E c \in ColSet(d) : c = "id" THEN {"id"} ELSE ColSet(d)

\* if subset and subset in self.df.columns: the one column; else every column
DedupColumns(d, subset) ==
  IF subset # "" /\ subset \in ColSet(d) THEN {subset} ELSE ColSet(d)

drop_duplicates(subset) ==
  LET on == DedupColumns(df, subset)
      before == Len(df.rows)
      \* drop_duplicates returns an empty frame (no column or no row) as it is
      kept == IF df.cols = <<>> THEN df.rows ELSE KeepFirst(df.rows, on)
  IN /\ df' = [df EXCEPT !.rows = kept]
     /\ summary' = Put(summary, <<"duplicate_rows_dropped">>, before - Len(kept))
     /\ err' = "none"
     /\ UNCHANGED <<roles, numeric_cols>>

-----------------------------------------------------------------------------
(* get_summary                                                             *)

\* Python's a / b: the quotient as a fraction, or ZeroDivisionError
TrueDiv(a, b) == IF b = 0 THEN [raised |-> TRUE, num |-> 0, den |-> 1]
                 ELSE [raised |-> FALSE, num |-> a, den |-> b]

Zero == [raised |-> FALSE, num |-> 0, den |-> 1]

\* round(x, 2) of the fraction x, in hundredths.  No fraction the model forms lies
\* halfway between two hundredths (that takes a denominator divisible by 32).
Round2(x) == (2 * 100 * x.num + x.den) \div (2 * x.den)

\* (rows_dropped / original_rows) * 100, without the test of original_rows
PercentUnguarded(rows_dropped, original_rows) == TrueDiv(rows_dropped * 100, original_rows)

\* (rows_dropped / original_rows) * 100 if original_rows else 0
Percent(rows_dropped, original_rows) ==
  IF original_rows # 0 THEN TrueDiv(rows_dropped * 100, original_rows) ELSE Zero

\* round(((before - after) / before * 100), 2) if before else 0
Change(before, after) ==
  IF before # 0 THEN TrueDiv((before - after) * 100, before) ELSE Zero

\* k.replace(old, new) on the words of a key
ReplaceWord(k, old, new) == [i \in 1..Len(k) |-> IF k[i] = old THEN new ELSE k[i]]

\* k.replace("Original ", "")
WithoutOriginal(k) == SelectSeq(k, LAMBDA w : w # "Original")

\* x if x else "None"
OrNone(x) == [none |-> DOMAIN x = {}, items |-> x]

RECURSIVE SumOf(_, _)
SumOf(f, keys) == IF keys = {} THEN 0
                  ELSE LET k == CHOOSE x \in keys : TRUE
                       IN f[k] + SumOf(f, keys \ {k})

\* The report stored under a name the scans of get_summary pick up
ReportKeyScanned == <<"Remaining", "Invalid", "Report">>

\* The key get_summary stores the nested report under
ReportKey == <<"Detailed_Report">>

\* One health-report entry
HealthEntry(s, k) ==
  LET before == s[k]
      after == Get(s, ReplaceWord(k, "Original", "Remaining"), 0)
  IN ("Before" :> before) @@ ("After" :> after)
       @@ ("% Change" :> Round2(Change(before, after)))

\* The health report without the entries whose two counts are both zero
HealthReportNonzero(s, original_invalids) ==
  [h \in {WithoutOriginal(k) : k \in {x \in DOMAIN original_invalids :
             s[x] # 0 \/ Get(s, ReplaceWord(x, "Original", "Remaining"), 0) # 0}} |->
     HealthEntry(s, CHOOSE x \in DOMAIN original_invalids : WithoutOriginal(x) = h)]

\* The health report: one entry for every "Original Invalid" key
HealthReport(s, original_invalids) ==
  [h \in {WithoutOriginal(k) : k \in DOMAIN original_invalids} |->
     HealthEntry(s, CHOOSE x \in DOMAIN original_invalids : WithoutOriginal(x) = h)]

\* get_summary on table d and summary dict s: the dict it leaves, and what it raised
GetSummaryOf(d, s) ==
  LET s1 == Put(s, <<"final_shape">>, Shape(d))
      original_rows == s1[<<"original_shape">>][1]
      final_rows == s1[<<"final_shape">>][1]
      rows_dropped == original_rows - final_rows
      pct_rows_dropped == Percent(rows_dropped, original_rows)
      s2 == Put(Put(s1, <<"rows_dropped">>, rows_dropped),
                <<"percent_rows_dropped">>, Round2(pct_rows_dropped))
      invalid_counts == ItemsWith(s2, <<"Remaining", "Invalid">>)
      original_invalids == ItemsWith(s2, <<"Original", "Invalid">>)
      negative_counts == ItemsWith(s2, <<"Negative">>)
      outliers == Get(s2, <<"outliers_flagged">>, <<>>)
      total_outliers == SumOf(outliers, DOMAIN outliers)
      health_report == HealthReport(s2, original_invalids)
      report ==
        ("Data Shape" :>
           (("Original Rows" :> <<original_rows>>)
              @@ ("Final Rows" :> <<final_rows>>)
              @@ ("Rows Dropped" :> <<rows_dropped>>)
              @@ ("Percent Rows Dropped" :> <<pct_rows_dropped.num, pct_rows_dropped.den>>)
              @@ ("Columns Removed (Empty >90%)" :> Get(s2, <<"columns_removed">>, <<>>))))
          @@ ("Validations Run" :> Get(s2, <<"validations_added">>, <<>>))
          @@ ("Invalid Counts" :> OrNone(invalid_counts))
          @@ ("Numeric Quality" :>
                [Negative_Values |-> OrNone(negative_counts),
                 Outliers_Flagged |-> OrNone(outliers),
                 Total_Outliers |-> total_outliers])
          @@ ("Duplicates Dropped" :> <<Get(s2, <<"duplicate_rows_dropped">>, 0)>>)
          @@ ("Health Report" :> OrNone(health_report))
  IN IF pct_rows_dropped.raised
     THEN [summary |-> s1, err |-> "ZeroDivisionError"]
     ELSE [summary |-> Put(s2, ReportKey, report), err |-> "none"]

get_summary ==
  LET r == GetSummaryOf(df, summary)
  IN /\ summary' = r.summary
     /\ err' = r.err
     /\ UNCHANGED <<df, roles, numeric_cols>>

\* get_summary has stored its report
Finalized == ReportKey \in DOMAIN summary

-----------------------------------------------------------------------------
(* Any caller: the stages in any order, any number of times, each with any *)
(* of the arguments above, whatever the call before raised; then           *)
(* get_summary, any number of times.  (The report aliases the lists and    *)
(* dicts of the summary it is stored in; a stage after get_summary is      *)
(* outside what is modelled.)                                              *)

DropEmptyColumns ==
  ~Finalized /\ (\E t \in Thresholds : drop_empty_columns(t)) /\ UNCHANGED pc
ConvertDates == ~Finalized /\ convert_dates /\ UNCHANGED pc
CleanNumericFields == ~Finalized /\ clean_numeric_fields /\ UNCHANGED pc
CleanPhones == ~Finalized /\ clean_phones /\ UNCHANGED pc
ValidateEmails == ~Finalized /\ validate_emails /\ UNCHANGED pc
ValidateWebsites == ~Finalized /\ validate_websites /\ UNCHANGED pc
ValidateZipCodes == ~Finalized /\ validate_zip_codes /\ UNCHANGED pc
CheckNegativeValues == ~Finalized /\ check_negative_values /\ UNCHANGED pc
DetectOutliersIqr == ~Finalized /\ detect_outliers_iqr /\ UNCHANGED pc
CleanTextColumns == ~Finalized /\ clean_text_columns /\ UNCHANGED pc
DropDuplicates ==
  ~Finalized /\ (\E subset \in Subsets : drop_duplicates(subset)) /\ UNCHANGED pc
GetSummary == get_summary /\ UNCHANGED pc

Next ==
  \/ DropEmptyColumns
  \/ ConvertDates
  \/ CleanNumericFields
  \/ CleanPhones
  \/ ValidateEmails
  \/ ValidateWebsites
  \/ ValidateZipCodes
  \/ CheckNegativeValues
  \/ DetectOutliersIqr
  \/ CleanTextColumns
  \/ DropDuplicates
  \/ GetSummary

Spec == Init /\ [][Next]_vars

-----------------------------------------------------------------------------
(* src/app.py: the twelve calls in its order.  An exception ends the run.  *)

\* The script has made n calls and none has raised
At(n) == pc = n /\ err = "none" /\ pc' = n + 1

AppDropEmptyColumns == At(0) /\ drop_empty_columns(DefaultThreshold)
AppConvertDates == At(1) /\ convert_dates
AppCleanNumericFields == At(2) /\ clean_numeric_fields
AppCleanPhones == At(3) /\ clean_phones
AppValidateEmails == At(4) /\ validate_emails
AppValidateWebsites == At(5) /\ validate_websites
AppValidateZipCodes == At(6) /\ validate_zip_codes
AppCheckNegativeValues == At(7) /\ check_negative_values
AppDetectOutliersIqr == At(8) /\ detect_outliers_iqr
AppCleanTextColumns == At(9) /\ clean_text_columns
AppDropDuplicates == At(10) /\ drop_duplicates("")
AppGetSummary == At(11) /\ get_summary

AppNext ==
  \/ AppDropEmptyColumns
  \/ AppConvertDates
  \/ AppCleanNumericFields
  \/ AppCleanPhones
  \/ AppValidateEmails
  \/ AppValidateWebsites
  \/ AppValidateZipCodes
  \/ AppCheckNegativeValues
  \/ AppDetectOutliersIqr
  \/ AppCleanTextColumns
  \/ AppDropDuplicates
  \/ AppGetSummary

SpecApp == Init /\ [][AppNext]_vars

-----------------------------------------------------------------------------
(* Properties                                                              *)

InputNames == UNION {Range(cols) : cols \in InputColumns}

OriginalRows == summary[<<"original_shape">>][1]

ValidationsAdded == summary[<<"validations_added">>]

\* C1: whatever stages have run, in whatever order, the table has no more rows
\* than the row count recorded at construction.
C1_RowsNeverIncrease == Len(df.rows) <= OriginalRows

\* C1 witness: drop_duplicates has removed a row.
C1_RowsRemoved ==
  summary[<<"duplicate_rows_dropped">>] > 0 /\ Len(df.rows) < OriginalRows

RoleColumns ==
  Range(phone_cols) \cup Range(email_cols) \cup Range(date_cols)
    \cup Range(website_cols) \cup Range(zip_cols) \cup Range(text_cols)

\* C2: in the order of src/app.py, once drop_empty_columns has removed a column of
\* a role, no later stage raises.
C2_DroppedRoleColumnsAreSkipped ==
  (\E c \in RoleColumns : c \in Range(summary[<<"columns_removed">>])) => err = "none"

\* C3: every name listed in summary["validations_added"] is a column of the table.
C3_ValidationColumnsPresent ==
  \A i \in 1..Len(ValidationsAdded) : ValidationsAdded[i] \in ColSet(df)

Kinds == {"Phones", "Emails", "URLs", "ZIPs"}

HealthKey(kind, col) == <<"Invalid", kind, "in", col>>

HealthItems == summary[ReportKey]["Health Report"].items

\* C4 as claimed: in the report, a validated column has a health-report entry
\* exactly when its original-invalid or its remaining-invalid count is nonzero.
C4_HealthEntryIffNonzero ==
  Finalized =>
    \A kind \in Kinds, col \in InputNames :
      OriginalKey(kind, col) \in DOMAIN summary =>
        (HealthKey(kind, col) \in DOMAIN HealthItems
           <=> (summary[OriginalKey(kind, col)] # 0
                  \/ Get(summary, RemainingKey(kind, col), 0) # 0))

\* C4 as amended: in the report, a column has a health-report entry exactly when
\* an original-invalid count was recorded for it, whatever the two counts are, and
\* the entry carries the two recorded counts.
C4_HealthEntryIffRecorded ==
  Finalized =>
    \A kind \in Kinds, col \in InputNames :
      /\ HealthKey(kind, col) \in DOMAIN HealthItems
           <=> OriginalKey(kind, col) \in DOMAIN summary
      /\ OriginalKey(kind, col) \in DOMAIN summary =>
           /\ HealthItems[HealthKey(kind, col)]["Before"] = summary[OriginalKey(kind, col)]
           /\ HealthItems[HealthKey(kind, col)]["After"]
                = Get(summary, RemainingKey(kind, col), 0)

\* C4 witness: the report holds an entry whose two counts are both zero.
C4_ZeroEntryReported ==
  /\ Finalized
  /\ \E h \in DOMAIN HealthItems :
       HealthItems[h]["Before"] = 0 /\ HealthItems[h]["After"] = 0

RECURSIVE FirstOccurrences(_, _)
\* rows without each row that equals an earlier one on the columns of on
FirstOccurrences(rows, on) ==
  IF rows = <<>> THEN <<>>
  ELSE LET n == Len(rows)
           front == SubSeq(rows, 1, n - 1)
       IN IF \E j \in 1..(n - 1) : \A c \in on : front[j][c] = rows[n][c]
          THEN FirstOccurrences(front, on)
          ELSE Append(FirstOccurrences(front, on), rows[n])

\* The identifier-role columns of the table
IdentifierColumns == {c \in ColSet(df) \cap InputNames : Contains(Lower(c), <<"i", "d">>)}

\* C5 as claimed: on a table that has a column, the pipeline's drop_duplicates
\* keeps the first row of each combination of the identifier columns when the
\* table has one, and of each fully identical row otherwise, and records before
\* minus after.
C5_DedupOnIdentifiers ==
  [][(AppDropDuplicates /\ df.cols # <<>>) =>
       /\ df'.rows = FirstOccurrences(df.rows, IF IdentifierColumns # {}
                                               THEN IdentifierColumns ELSE ColSet(df))
       /\ summary'[<<"duplicate_rows_dropped">>] = Len(df.rows) - Len(df'.rows)]_vars

\* C5 as amended: on a table that has a column, the pipeline's drop_duplicates
\* keeps the first of the rows that are equal on every column, identifier columns
\* or not, and records before minus after.
C5_DedupOnAllColumns ==
  [][(AppDropDuplicates /\ df.cols # <<>>) =>
       /\ df'.rows = FirstOccurrences(df.rows, ColSet(df))
       /\ df'.cols = df.cols
       /\ summary'[<<"duplicate_rows_dropped">>] = Len(df.rows) - Len(df'.rows)]_vars

\* C5 witness: the script has called drop_duplicates on a table with an id column
\* and a row went.
C5_DuplicateDroppedBesideId ==
  pc = 11 /\ "id" \in ColSet(df) /\ summary[<<"duplicate_rows_dropped">>] > 0

\* C6: a call drop_empty_columns(t) removes, and lists in
\* summary["columns_removed"], every column whose share of missing cells is above
\* t, and leaves every other column in the table with its cells as they were.
C6_DropsExactlyAboveThreshold ==
  [][\A t \in Thresholds :
       drop_empty_columns(t) =>
         \A c \in ColSet(df) :
           IF Len(df.rows) > 0 /\ NullCount(df, c) * t[2] > t[1] * Len(df.rows)
           THEN c \notin ColSet(df') /\ c \in Range(summary'[<<"columns_removed">>])
           ELSE /\ c \in ColSet(df')
                /\ c \notin Range(summary'[<<"columns_removed">>])
                /\ Column(df', c) = Column(df, c)]_vars

\* C6 witness: a call on a table with rows removed one column and kept another.
C6_ColumnDroppedAndKept ==
  summary[<<"columns_removed">>] # <<>> /\ df.cols # <<>> /\ Len(df.rows) > 0

\* C7: once get_summary has been called on an object built from a table of no
\* rows, it has not raised a division error and percent_rows_dropped is 0.
C7_EmptyTablePercentZero ==
  (OriginalRows = 0 /\ <<"final_shape">> \in DOMAIN summary) =>
    /\ err # "ZeroDivisionError"
    /\ <<"percent_rows_dropped">> \in DOMAIN summary
    /\ summary[<<"percent_rows_dropped">>] = 0

\* C7 witness: get_summary has returned for a table of no rows, after validators ran.
C7_EmptyTableFinalized ==
  OriginalRows = 0 /\ Finalized /\ ValidationsAdded # <<>> /\ err = "none"

\* C8: for the table of every reachable state, cleaning the phone columns of the
\* cleaned table leaves each of them as the first cleaning left it.
C8_CleanPhonesIdempotent ==
  LET once == CleanedPhones(df, phone_cols)
      twice == CleanedPhones(once, phone_cols)
  IN \A c \in Reached(phone_cols, df) :
       Column(twice, c) = Column(once, c) /\ twice.dtype[c] = once.dtype[c]

\* C8 witness: clean_phones has run twice on a column that now holds an E.164
\* number and a missing value.
C8_CleanedTwice ==
  /\ ValidationsAdded = <<"Valid Phone", "Valid Phone">>
  /\ "Phone" \in ColSet(df)
  /\ \E i \in 1..Len(df.rows) : df.rows[i]["Phone"] = Str(<<"+", "1", "2", "0", "2", "5", "5", "5", "0", "1", "7", "3">>)
  /\ \E i \in 1..Len(df.rows) : IsNull(df.rows[i]["Phone"])

\* C9: in every reachable state, get_summary called twice in a row leaves the
\* summary the first call left: the second call's report equals the first's.
C9_GetSummaryIdempotent ==
  LET first == GetSummaryOf(df, summary)
      second == GetSummaryOf(df, first.summary)
  IN second.summary = first.summary /\ second.err = first.err

\* C9 witness: get_summary has returned a report with invalid counts, and calling
\* it again changes nothing.
C9_FinalizedWithCounts ==
  /\ Finalized
  /\ ~summary[ReportKey]["Invalid Counts"].none
  /\ ~summary[ReportKey]["Health Report"].none
  /\ GetSummaryOf(df, summary).summary = summary

\* C10: the remaining-invalid count clean_phones records for a column is 0, and
\* so never above the original-invalid count recorded with it.
C10_NoRemainingInvalidPhones ==
  \A c \in InputNames :
    RemainingKey("Phones", c) \in DOMAIN summary =>
      /\ summary[RemainingKey("Phones", c)] = 0
      /\ summary[RemainingKey("Phones", c)] <= summary[OriginalKey("Phones", c)]

====
